---- MODULE Spec2Model ----
(***************************************************************************)
(* NRetrocade back end: game sessions, XP / levels, guild aggregates.      *)
(*                                                                         *)
(* Every Convex mutation runs as one serializable transaction: a handler   *)
(* that throws leaves the database as it was.  Each mutation is therefore  *)
(* one atomic action; a throwing call changes only `ret`, the response     *)
(* handed back to the caller.  Date.now() is the variable `now`.           *)
(* The GamePlayer component of the client, which starts and ends the       *)
(* sessions, is the variable `player`.                                     *)
(***************************************************************************)
EXTENDS Integers, Sequences, FiniteSets, TLC

VARIABLES
    users,          \* table users:         _id -> document
    games,          \* table games:         _id -> document
    game_sessions,  \* table game_sessions: documents in creation order
    guilds,         \* table guilds:        _id -> document
    guild_members,  \* table guild_members: documents in creation order
    guild_messages, \* table guild_messages: documents in creation order
    friendships,    \* table friendships:   _id -> document
    inserted,       \* documents inserted so far, per table (an _id is never reused)
    now,            \* Date.now(), milliseconds
    ret,            \* response of the last call
    player          \* the GamePlayer component of the user's browser

vars == <<users, games, game_sessions, guilds, guild_members, guild_messages,
          friendships, inserted, now, ret, player>>
db   == <<users, games, game_sessions, guilds, guild_members, guild_messages,
          friendships, inserted>>

----------------------------------------------------------------------------
(* Bounds of the model *)

MaxTicks       == 2      \* the clock stops after MaxTicks ticks
MaxSessions    == 2      \* game_sessions documents ever inserted
MaxGuilds      == 1      \* guilds documents ever inserted
MaxFriendships == 1      \* friendships documents ever inserted
MaxExp         == 460    \* addExp is not called beyond this cumulative XP
MaxPlaytime    == 10     \* updatePlaytime is not called beyond this many minutes
MaxTotalExp    == 2400   \* largest totalExp passed to calculateLevelFromExp
MaxLevel       == 11     \* largest level passed to getTotalExpForLevel
MaxMessages    == 1      \* guild_messages documents ever inserted
MaxMounts      == 2      \* GamePlayer instances mounted in a run
MaxCalls       == 3      \* mutations of the client in flight at a time

UserIds      == {"u1", "u2"}
Players      == {"u1"}               \* the user who plays in SpecAwards
Usernames    == [u \in UserIds |-> IF u = "u1" THEN "alice" ELSE "bob"]
GameIds      == {"g1"}
SeededGames  == {"g1"}
TickMs       == 62500                \* calls happen at multiples of 62.5 s
NameArgs     == {"alice", "bob", "x", ""}   \* "x" is too short, "" is omitted
AnonIds      == {"u1"}               \* ids of anonymous profiles
ClerkIds     == {"u2"}               \* ids of profiles that sign in with Clerk
ExpAmounts   == {250}                \* expAmount arguments of addExp
AnyAmounts   == ExpAmounts \cup {-50}  \* expAmount is any v.number()
MinuteArgs   == {5, -5}              \* minutesPlayed is any v.number()
GuildNames   == {"Alpha", "Zz"}      \* "Zz" is shorter than 3 characters
CompletedArgs == {"true", "false", "undefined"}   \* v.optional(v.boolean())

NoGuild == 0             \* guildId: undefined
NoTime  == -1            \* endTime: undefined
GuildIds == 1..MaxGuilds
FriendshipIds == 1..MaxFriendships

----------------------------------------------------------------------------
(* convex/utils.ts *)

RECURSIVE Pow(_, _)
Pow(b, e) == IF e = 0 THEN 1 ELSE b * Pow(b, e - 1)

\* mutant: every level above 1 costs the same
getExpForLevel_Flat(level) == IF level <= 1 THEN 0 ELSE 300

\* Math.floor(level * 100 * Math.pow(1.5, level - 1)), in exact arithmetic
getExpForLevel(level) ==
    IF level <= 1 THEN 0
    ELSE (level * 100 * Pow(3, level - 1)) \div Pow(2, level - 1)

RECURSIVE getTotalExpLoop(_, _, _)
getTotalExpLoop(i, level, total) ==
    IF i < level THEN getTotalExpLoop(i + 1, level, total + getExpForLevel(i + 1))
    ELSE total

getTotalExpForLevel(level) == getTotalExpLoop(1, level, 0)

\* mutant: the loop breaks without undoing level++
RECURSIVE levelLoop_NoBacktrack(_, _, _)
levelLoop_NoBacktrack(level, expForCurrentLevel, totalExp) ==
    IF expForCurrentLevel <= totalExp
    THEN LET expRequired == getExpForLevel(level + 1) IN
         IF expForCurrentLevel + expRequired > totalExp
         THEN <<level + 1, expForCurrentLevel>>
         ELSE levelLoop_NoBacktrack(level + 1, expForCurrentLevel + expRequired, totalExp)
    ELSE <<level, expForCurrentLevel>>

\* mutant: a level is reached only above its threshold (>= instead of >)
RECURSIVE levelLoop_Strict(_, _, _)
levelLoop_Strict(level, expForCurrentLevel, totalExp) ==
    IF expForCurrentLevel <= totalExp
    THEN LET expRequired == getExpForLevel(level + 1) IN
         IF expForCurrentLevel + expRequired >= totalExp
         THEN <<level, expForCurrentLevel>>
         ELSE levelLoop_Strict(level + 1, expForCurrentLevel + expRequired, totalExp)
    ELSE <<level, expForCurrentLevel>>

\* the while loop of calculateLevelFromExp: returns <<level, expForCurrentLevel>>
RECURSIVE levelLoop(_, _, _)
levelLoop(level, expForCurrentLevel, totalExp) ==
    IF expForCurrentLevel <= totalExp
    THEN LET expRequired == getExpForLevel(level + 1) IN
         IF expForCurrentLevel + expRequired > totalExp
         THEN <<level, expForCurrentLevel>>                  \* level++ ; level-- ; break
         ELSE levelLoop(level + 1, expForCurrentLevel + expRequired, totalExp)
    ELSE <<level, expForCurrentLevel>>

\* progress (a float percentage) is left out
calculateLevelFromExp(totalExp) ==
    LET r == levelLoop(1, 0, totalExp) IN
    [level          |-> r[1],
     currentLevelExp |-> totalExp - r[2],
     nextLevelExp   |-> getExpForLevel(r[1] + 1)]

\* Math.floor(minutes * 10); minutes is always an integer here
calculateExpFromPlaytime(minutes) == minutes * 10

----------------------------------------------------------------------------
(* Helpers for the document store *)

Put(f, k, v) == [x \in (DOMAIN f) \cup {k} |-> IF x = k THEN v ELSE f[x]]
Del(f, k)    == [x \in (DOMAIN f) \ {k} |-> f[x]]

\* a handler that throws: the transaction is rolled back
Throw(op, who, msg) ==
    /\ ret' = [op |-> op, user |-> who, threw |-> TRUE, error |-> msg]
    /\ UNCHANGED <<db, now>>

Min(S) == CHOOSE x \in S : \A y \in S : x <= y

\* GamePlayer before it is first mounted: no game, sessionIdRef.current null, no
\* mutation in flight and no response on its way back
NoGame == "none"
NoPlayer == [game |-> NoGame, inst |-> 0, ref |-> 0, calls |-> <<>>, replies |-> <<>>]

\* positions of the open sessions of user u, in by_user index order
OpenSessions(u) ==
    {i \in 1..Len(game_sessions) :
        game_sessions[i].userId = u /\ ~game_sessions[i].completed}

\* mutant: the filter keeps the completed sessions instead of the open ones
ActiveSession_Completed(u) ==
    LET S == {i \in 1..Len(game_sessions) :
                game_sessions[i].userId = u /\ game_sessions[i].completed}
    IN IF S = {} THEN 0 ELSE Min(S)

\* mutant: the query has no filter on `completed`
ActiveSession_Unfiltered(u) ==
    LET S == {i \in 1..Len(game_sessions) : game_sessions[i].userId = u}
    IN IF S = {} THEN 0 ELSE Min(S)

\* .withIndex("by_user").filter(completed = false).first(); 0 when null
ActiveSession(u) == IF OpenSessions(u) = {} THEN 0 ELSE Min(OpenSessions(u))

Init ==
    /\ users = [u \in UserIds |->
                  [username |-> Usernames[u], exp |-> 0, level |-> 1,
                   totalPlaytime |-> 0, lastSeen |-> 0, guildId |-> NoGuild,
                   isAnonymous |-> TRUE]]
    /\ games = [g \in SeededGames |-> [playCount |-> 0]]
    /\ game_sessions = <<>>
    /\ guilds = <<>>
    /\ guild_members = <<>>
    /\ guild_messages = <<>>
    /\ friendships = <<>>
    /\ inserted = [game_sessions |-> 0, guilds |-> 0, friendships |-> 0]
    /\ now = 0
    /\ ret = [op |-> "init", user |-> "", threw |-> FALSE]
    /\ player = NoPlayer

\* time passes between two calls
Tick ==
    /\ now + TickMs <= MaxTicks * TickMs
    /\ now' = now + TickMs
    /\ UNCHANGED <<db, ret>>

\* Date.now() is the wall clock of the server: it can be set back between two calls
TickBack ==
    /\ now - TickMs >= 0
    /\ now' = now - TickMs
    /\ UNCHANGED <<db, ret>>

----------------------------------------------------------------------------
(* convex/gameSessions.ts *)

\* mutant: the force-close adds the completion bonus
ForceCloseExp_Bonus(duration) == calculateExpFromPlaytime(duration) + 50

\* XP of a session force-closed by startSession
ForceCloseExp(duration) == calculateExpFromPlaytime(duration)

StartSession(userId, gameId) ==
    LET a          == ActiveSession(userId)
        duration   == (now - game_sessions[a].startTime) \div 60000
        expAwarded == ForceCloseExp(duration)
        closed     == IF a = 0 THEN game_sessions
                      ELSE [game_sessions EXCEPT
                              ![a].endTime = now, ![a].duration = duration,
                              ![a].expAwarded = expAwarded, ![a].completed = TRUE]
        sessionId  == inserted.game_sessions + 1
    IN
    /\ inserted.game_sessions < MaxSessions
    /\ users' = IF a # 0 /\ userId \in DOMAIN users
                THEN [users EXCEPT ![userId].exp = @ + expAwarded,
                                   ![userId].totalPlaytime = @ + duration]
                ELSE users
    /\ game_sessions' = Append(closed,
            [_id |-> sessionId, userId |-> userId, gameId |-> gameId,
             startTime |-> now, endTime |-> NoTime, duration |-> 0,
             expAwarded |-> 0, completed |-> FALSE])
    /\ inserted' = [inserted EXCEPT !.game_sessions = sessionId]
    /\ ret' = [op |-> "startSession", user |-> userId, threw |-> FALSE,
               sessionId |-> sessionId, success |-> TRUE,
               forceClosed |-> IF a = 0 THEN 0 ELSE game_sessions[a]._id]
    /\ UNCHANGED <<games, guilds, guild_members, guild_messages, friendships, now>>

\* mutant: an omitted `completed` counts as completed
EndSessionExp_Omitted(duration, completed) ==
    calculateExpFromPlaytime(duration) + (IF completed # "false" THEN 50 ELSE 0)

\* XP of a session closed by endSession: 10 per minute, +50 when args.completed is truthy
EndSessionExp(duration, completed) ==
    calculateExpFromPlaytime(duration) + (IF completed = "true" THEN 50 ELSE 0)

\* mutant: the writes made before "User not found" is thrown are kept
EndSession_Partial(userId, completed) ==
    LET s          == ActiveSession(userId)
        session    == game_sessions[s]
        duration   == (now - session.startTime) \div 60000
        expAwarded == EndSessionExp(duration, completed)
        user       == users[userId]
        newExp     == user.exp + expAwarded
        newPlaytime == user.totalPlaytime + duration
    IN
    IF s = 0 THEN Throw("endSession", userId, "No active session found")
    ELSE IF userId \notin DOMAIN users THEN
        /\ game_sessions' = [game_sessions EXCEPT
                               ![s].endTime = now, ![s].duration = duration,
                               ![s].expAwarded = expAwarded, ![s].completed = TRUE]
        /\ ret' = [op |-> "endSession", user |-> userId, threw |-> TRUE,
                   error |-> "User not found"]
        /\ UNCHANGED <<users, games, guilds, guild_members, guild_messages,
                       friendships, inserted, now>>
    ELSE
    /\ game_sessions' = [game_sessions EXCEPT
                           ![s].endTime = now, ![s].duration = duration,
                           ![s].expAwarded = expAwarded, ![s].completed = TRUE]
    /\ users' = [users EXCEPT ![userId].exp = newExp,
                              ![userId].totalPlaytime = newPlaytime,
                              ![userId].lastSeen = now]
    /\ games' = IF session.gameId \in DOMAIN games
                THEN [games EXCEPT ![session.gameId].playCount = @ + 1]
                ELSE games
    /\ guilds' = IF user.guildId # NoGuild /\ user.guildId \in DOMAIN guilds
                 THEN [guilds EXCEPT ![user.guildId].totalExp = @ + expAwarded]
                 ELSE guilds
    /\ ret' = [op |-> "endSession", user |-> userId, threw |-> FALSE,
               sessionId |-> session._id, completed |-> completed, success |-> TRUE,
               duration |-> duration, expAwarded |-> expAwarded,
               totalExp |-> newExp, totalPlaytime |-> newPlaytime]
    /\ UNCHANGED <<guild_members, guild_messages, friendships, inserted, now>>

EndSession(userId, completed) ==
    LET s          == ActiveSession(userId)
        session    == game_sessions[s]
        duration   == (now - session.startTime) \div 60000
        expAwarded == EndSessionExp(duration, completed)
        user       == users[userId]
        newExp     == user.exp + expAwarded
        newPlaytime == user.totalPlaytime + duration
    IN
    IF s = 0 THEN Throw("endSession", userId, "No active session found")
    ELSE IF userId \notin DOMAIN users THEN Throw("endSession", userId, "User not found")
    ELSE
    /\ game_sessions' = [game_sessions EXCEPT
                           ![s].endTime = now, ![s].duration = duration,
                           ![s].expAwarded = expAwarded, ![s].completed = TRUE]
    /\ users' = [users EXCEPT ![userId].exp = newExp,
                              ![userId].totalPlaytime = newPlaytime,
                              ![userId].lastSeen = now]
    /\ games' = IF session.gameId \in DOMAIN games
                THEN [games EXCEPT ![session.gameId].playCount = @ + 1]
                ELSE games
    /\ guilds' = IF user.guildId # NoGuild /\ user.guildId \in DOMAIN guilds
                 THEN [guilds EXCEPT ![user.guildId].totalExp = @ + expAwarded]
                 ELSE guilds
    /\ ret' = [op |-> "endSession", user |-> userId, threw |-> FALSE,
               sessionId |-> session._id, completed |-> completed, success |-> TRUE,
               duration |-> duration, expAwarded |-> expAwarded,
               totalExp |-> newExp, totalPlaytime |-> newPlaytime]
    /\ UNCHANGED <<guild_members, guild_messages, friendships, inserted, now>>

\* mutant: the heartbeat stores its preview in the session document
UpdateSessionHeartbeat_Persist(userId) ==
    LET s               == ActiveSession(userId)
        currentDuration == (now - game_sessions[s].startTime) \div 60000
    IN
    IF s = 0 THEN
        /\ ret' = [op |-> "updateSessionHeartbeat", user |-> userId, threw |-> FALSE,
                   success |-> FALSE, message |-> "No active session"]
        /\ UNCHANGED <<db, now>>
    ELSE IF userId \notin DOMAIN users
    THEN Throw("updateSessionHeartbeat", userId, "Update on nonexistent document")
    ELSE
    /\ users' = [users EXCEPT ![userId].lastSeen = now]
    /\ game_sessions' = [game_sessions EXCEPT
                           ![s].duration = currentDuration,
                           ![s].expAwarded = calculateExpFromPlaytime(currentDuration)]
    /\ ret' = [op |-> "updateSessionHeartbeat", user |-> userId, threw |-> FALSE,
               success |-> TRUE, currentDuration |-> currentDuration,
               estimatedExp |-> calculateExpFromPlaytime(currentDuration)]
    /\ UNCHANGED <<games, guilds, guild_members, guild_messages, friendships,
                   inserted, now>>

\* mutant: a heartbeat without an open session is an error
UpdateSessionHeartbeat_Strict(userId) ==
    LET s               == ActiveSession(userId)
        currentDuration == (now - game_sessions[s].startTime) \div 60000
    IN
    IF s = 0 THEN Throw("updateSessionHeartbeat", userId, "No active session")
    ELSE IF userId \notin DOMAIN users
    THEN Throw("updateSessionHeartbeat", userId, "Update on nonexistent document")
    ELSE
    /\ users' = [users EXCEPT ![userId].lastSeen = now]
    /\ ret' = [op |-> "updateSessionHeartbeat", user |-> userId, threw |-> FALSE,
               success |-> TRUE, currentDuration |-> currentDuration,
               estimatedExp |-> calculateExpFromPlaytime(currentDuration)]
    /\ UNCHANGED <<games, game_sessions, guilds, guild_members, guild_messages,
                   friendships, inserted, now>>

UpdateSessionHeartbeat(userId) ==
    LET s               == ActiveSession(userId)
        currentDuration == (now - game_sessions[s].startTime) \div 60000
    IN
    IF s = 0 THEN
        /\ ret' = [op |-> "updateSessionHeartbeat", user |-> userId, threw |-> FALSE,
                   success |-> FALSE, message |-> "No active session"]
        /\ UNCHANGED <<db, now>>
    ELSE IF userId \notin DOMAIN users     \* db.patch of a missing document throws
    THEN Throw("updateSessionHeartbeat", userId, "Update on nonexistent document")
    ELSE
    /\ users' = [users EXCEPT ![userId].lastSeen = now]
    /\ ret' = [op |-> "updateSessionHeartbeat", user |-> userId, threw |-> FALSE,
               success |-> TRUE, currentDuration |-> currentDuration,
               estimatedExp |-> calculateExpFromPlaytime(currentDuration)]
    /\ UNCHANGED <<games, game_sessions, guilds, guild_members, guild_messages,
                   friendships, inserted, now>>

ClearUserSessions(userId) ==
    LET keep == SelectSeq(game_sessions, LAMBDA s : s.userId # userId) IN
    /\ game_sessions' = keep
    /\ ret' = [op |-> "clearUserSessions", user |-> userId, threw |-> FALSE,
               success |-> TRUE, deletedCount |-> Len(game_sessions) - Len(keep)]
    /\ UNCHANGED <<users, games, guilds, guild_members, guild_messages, friendships,
                   inserted, now>>

----------------------------------------------------------------------------
(* convex/users.ts *)

\* the document inserted for a new user (avatarUrl, email and createdAt are left
\* out; the external userId and the tokenIdentifier are modelled by the _id)
NewUser(username, isAnonymous) ==
    [username |-> username, exp |-> 0, level |-> 1, totalPlaytime |-> 0,
     lastSeen |-> now, guildId |-> NoGuild, isAnonymous |-> isAnonymous]

\* .withIndex("by_username").first() finds a document
UsernameExists(username) == \E u \in DOMAIN users : users[u].username = username

\* isValidUsername: 3-20 characters of [a-zA-Z0-9_]
IsValidUsername(username) == username \notin {"", "x"}

CreateOrGetProfile(userId, username) ==
    IF userId \in DOMAIN users THEN
        /\ users' = [users EXCEPT ![userId].lastSeen = now]
        /\ ret' = [op |-> "createOrGetProfile", user |-> userId, threw |-> FALSE,
                   isNew |-> FALSE]
        /\ UNCHANGED <<games, game_sessions, guilds, guild_members, guild_messages,
                       friendships, inserted, now>>
    ELSE IF ~IsValidUsername(username)
    THEN Throw("createOrGetProfile", userId, "Invalid username format")
    ELSE IF UsernameExists(username)
    THEN Throw("createOrGetProfile", userId, "username taken")
    ELSE
        /\ users' = Put(users, userId, NewUser(username, TRUE))
        /\ ret' = [op |-> "createOrGetProfile", user |-> userId, threw |-> FALSE,
                   isNew |-> TRUE]
        /\ UNCHANGED <<games, game_sessions, guilds, guild_members, guild_messages,
                       friendships, inserted, now>>

\* the loop of syncClerkUser: username, username1, username2, ... until one is free
RECURSIVE FinalUsername(_, _, _)
FinalUsername(username, finalUsername, counter) ==
    IF ~UsernameExists(finalUsername) THEN finalUsername
    ELSE FinalUsername(username, username \o ToString(counter), counter + 1)

\* username = "" stands for an omitted args.username; no email is passed
SyncClerkUser(clerkUserId, username) ==
    LET existing == users[clerkUserId]
        given    == IF username # "" THEN username ELSE "user_" \o clerkUserId
    IN
    IF clerkUserId \in DOMAIN users /\ ~existing.isAnonymous THEN
        /\ users' = [users EXCEPT
                        ![clerkUserId].lastSeen = now,
                        ![clerkUserId].username =
                            IF username # "" THEN username ELSE existing.username]
        /\ ret' = [op |-> "syncClerkUser", user |-> clerkUserId, threw |-> FALSE,
                   isNew |-> FALSE]
        /\ UNCHANGED <<games, game_sessions, guilds, guild_members, guild_messages,
                       friendships, inserted, now>>
    ELSE
        /\ clerkUserId \notin DOMAIN users
        /\ users' = Put(users, clerkUserId,
                        NewUser(FinalUsername(given, given, 1), FALSE))
        /\ ret' = [op |-> "syncClerkUser", user |-> clerkUserId, threw |-> FALSE,
                   isNew |-> TRUE]
        /\ UNCHANGED <<games, game_sessions, guilds, guild_members, guild_messages,
                       friendships, inserted, now>>

\* username = "" stands for an omitted args.username
UpdateProfile(userId, username) ==
    LET user == users[userId] IN
    IF userId \notin DOMAIN users THEN Throw("updateProfile", userId, "User not found")
    ELSE IF username # "" /\ ~IsValidUsername(username)
    THEN Throw("updateProfile", userId, "Invalid username format")
    ELSE IF username # "" /\ username # user.username /\ UsernameExists(username)
    THEN Throw("updateProfile", userId, "Username already taken")
    ELSE
    /\ users' = [users EXCEPT
                    ![userId].lastSeen = now,
                    ![userId].username = IF username # "" THEN username ELSE @]
    /\ ret' = [op |-> "updateProfile", user |-> userId, threw |-> FALSE,
               success |-> TRUE]
    /\ UNCHANGED <<games, game_sessions, guilds, guild_members, guild_messages,
                   friendships, inserted, now>>

\* convex/fixUsers.ts: of the defaults it restores only the username is modelled
FixUsers ==
    /\ users' = [u \in DOMAIN users |->
                    IF users[u].username = ""
                    THEN [users[u] EXCEPT !.username = "Anonymous"]
                    ELSE users[u]]
    /\ ret' = [op |-> "fixUsers", user |-> "", threw |-> FALSE,
               fixedCount |-> Cardinality({u \in DOMAIN users : users[u].username = ""}),
               total |-> Cardinality(DOMAIN users)]
    /\ UNCHANGED <<games, game_sessions, guilds, guild_members, guild_messages,
                   friendships, inserted, now>>

\* mutant: the guild's total is patched, its level is not
AddExpGuilds_NoLevel(guildId, expAmount) ==
    [guilds EXCEPT ![guildId].totalExp = @ + expAmount]

\* the guilds table after addExp has patched the user's guild
AddExpGuilds(guildId, expAmount) ==
    LET guild       == guilds[guildId]
        newGuildExp == guild.totalExp + expAmount
        guildLevel  == calculateLevelFromExp(newGuildExp).level
    IN [guilds EXCEPT ![guildId].totalExp = newGuildExp,
                      ![guildId].level = guildLevel]

AddExp(userId, expAmount) ==
    LET user         == users[userId]
        newExp       == user.exp + expAmount
        oldLevelInfo == calculateLevelFromExp(user.exp)
        newLevelInfo == calculateLevelFromExp(newExp)
        leveledUp    == newLevelInfo.level > oldLevelInfo.level
    IN
    IF userId \notin DOMAIN users THEN Throw("addExp", userId, "User not found")
    ELSE
    /\ user.exp + expAmount <= MaxExp
    /\ user.exp + expAmount >= -MaxExp
    /\ users' = [users EXCEPT ![userId].exp = newExp,
                              ![userId].level = newLevelInfo.level,
                              ![userId].lastSeen = now]
    /\ guilds' = IF user.guildId # NoGuild /\ user.guildId \in DOMAIN guilds
                 THEN AddExpGuilds(user.guildId, expAmount)
                 ELSE guilds
    /\ ret' = [op |-> "addExp", user |-> userId, threw |-> FALSE, success |-> TRUE,
               expAmount |-> expAmount, leveledUp |-> leveledUp,
               oldLevel |-> oldLevelInfo.level, newLevel |-> newLevelInfo.level,
               totalExp |-> newExp]
    /\ UNCHANGED <<games, game_sessions, guild_members, guild_messages, friendships,
                   inserted, now>>

UpdatePlaytime(userId, minutesPlayed) ==
    LET user == users[userId] IN
    IF userId \notin DOMAIN users THEN Throw("updatePlaytime", userId, "User not found")
    ELSE
    /\ user.totalPlaytime + minutesPlayed <= MaxPlaytime
    /\ user.totalPlaytime + minutesPlayed >= -MaxPlaytime
    /\ users' = [users EXCEPT ![userId].totalPlaytime = @ + minutesPlayed,
                              ![userId].lastSeen = now]
    /\ ret' = [op |-> "updatePlaytime", user |-> userId, threw |-> FALSE,
               success |-> TRUE]
    /\ UNCHANGED <<games, game_sessions, guilds, guild_members, guild_messages,
                   friendships, inserted, now>>

\* first guild_members document of (guildId, userId), by_guild_and_user; 0 when null
Membership(guildId, userId) ==
    LET S == {i \in 1..Len(guild_members) :
                guild_members[i].guildId = guildId /\ guild_members[i].userId = userId}
    IN IF S = {} THEN 0 ELSE Min(S)

\* mutant: the delete is skipped
Without_Kept(seq, i) == seq

\* the sequence without the element at position i (i = 0: unchanged)
Without(seq, i) ==
    [j \in 1..(Len(seq) - (IF i = 0 THEN 0 ELSE 1)) |->
        IF i = 0 \/ j < i THEN seq[j] ELSE seq[j + 1]]

\* the external userId string of a user is modelled by its _id
DeleteAccount(userId) ==
    LET user       == users[userId]
        membership == Membership(user.guildId, userId)
    IN
    IF userId \notin DOMAIN users THEN Throw("deleteAccount", userId, "User not found")
    ELSE
    /\ guild_members' = IF user.guildId # NoGuild
                        THEN Without(guild_members, membership)
                        ELSE guild_members
    /\ guilds' = IF user.guildId # NoGuild /\ membership # 0
                    /\ user.guildId \in DOMAIN guilds
                 THEN [guilds EXCEPT ![user.guildId].memberCount = @ - 1]
                 ELSE guilds
    /\ friendships' = [f \in {x \in DOMAIN friendships :
                                friendships[x].requesterId # userId
                                /\ friendships[x].recipientId # userId}
                         |-> friendships[f]]
    /\ users' = Del(users, userId)
    /\ ret' = [op |-> "deleteAccount", user |-> userId, threw |-> FALSE, success |-> TRUE]
    /\ UNCHANGED <<games, game_sessions, guild_messages, inserted, now>>

----------------------------------------------------------------------------
(* convex/guilds.ts *)

StrLen(name) == IF name = "Zz" THEN 2 ELSE 5

\* guild description, createdAt and joinedAt are left out
CreateGuild(userId, name, isPrivate) ==
    LET user    == users[userId]
        guildId == inserted.guilds + 1
    IN
    IF userId \notin DOMAIN users THEN Throw("createGuild", userId, "User not found")
    ELSE IF user.guildId # NoGuild
    THEN Throw("createGuild", userId, "You are already in a guild")
    ELSE IF StrLen(name) < 3 \/ StrLen(name) > 30
    THEN Throw("createGuild", userId, "Guild name must be 3-30 characters")
    ELSE IF \E g \in DOMAIN guilds : guilds[g].name = name
    THEN Throw("createGuild", userId, "Guild name already taken")
    ELSE
    /\ inserted.guilds < MaxGuilds
    /\ guilds' = Put(guilds, guildId,
                     [name |-> name, ownerId |-> userId, isPrivate |-> isPrivate,
                      memberCount |-> 1, totalExp |-> user.exp, level |-> user.level])
    /\ guild_members' = Append(guild_members,
                     [guildId |-> guildId, userId |-> userId, role |-> "owner"])
    /\ users' = [users EXCEPT ![userId].guildId = guildId,
                              ![userId].exp = user.exp + 100]
    /\ inserted' = [inserted EXCEPT !.guilds = guildId]
    /\ ret' = [op |-> "createGuild", user |-> userId, threw |-> FALSE,
               success |-> TRUE, guildId |-> guildId]
    /\ UNCHANGED <<games, game_sessions, guild_messages, friendships, now>>

\* mutant: joinGuild without the check of user.guildId
JoinGuild_Unchecked(userId, guildId) ==
    LET user  == users[userId]
        guild == guilds[guildId]
    IN
    IF userId \notin DOMAIN users THEN Throw("joinGuild", userId, "User not found")
    ELSE IF guildId \notin DOMAIN guilds THEN Throw("joinGuild", userId, "Guild not found")
    ELSE IF guild.isPrivate THEN Throw("joinGuild", userId, "This guild is private")
    ELSE IF Membership(guildId, userId) # 0
    THEN Throw("joinGuild", userId, "You are already a member of this guild")
    ELSE
    /\ guild_members' = Append(guild_members,
                     [guildId |-> guildId, userId |-> userId, role |-> "member"])
    /\ guilds' = [guilds EXCEPT
                    ![guildId].memberCount = guild.memberCount + 1,
                    ![guildId].totalExp = guild.totalExp + user.exp,
                    ![guildId].level = calculateLevelFromExp(guild.totalExp + user.exp).level]
    /\ users' = [users EXCEPT ![userId].guildId = guildId]
    /\ ret' = [op |-> "joinGuild", user |-> userId, threw |-> FALSE,
               success |-> TRUE, guildId |-> guildId]
    /\ UNCHANGED <<games, game_sessions, guild_messages, friendships, inserted, now>>

JoinGuild(userId, guildId) ==
    LET user  == users[userId]
        guild == guilds[guildId]
    IN
    IF userId \notin DOMAIN users THEN Throw("joinGuild", userId, "User not found")
    ELSE IF guildId \notin DOMAIN guilds THEN Throw("joinGuild", userId, "Guild not found")
    ELSE IF user.guildId # NoGuild
    THEN Throw("joinGuild", userId, "You are already in a guild")
    ELSE IF guild.isPrivate THEN Throw("joinGuild", userId, "This guild is private")
    ELSE IF Membership(guildId, userId) # 0
    THEN Throw("joinGuild", userId, "You are already a member of this guild")
    ELSE
    /\ guild_members' = Append(guild_members,
                     [guildId |-> guildId, userId |-> userId, role |-> "member"])
    /\ guilds' = [guilds EXCEPT
                    ![guildId].memberCount = guild.memberCount + 1,
                    ![guildId].totalExp = guild.totalExp + user.exp,
                    ![guildId].level = calculateLevelFromExp(guild.totalExp + user.exp).level]
    /\ users' = [users EXCEPT ![userId].guildId = guildId]
    /\ ret' = [op |-> "joinGuild", user |-> userId, threw |-> FALSE,
               success |-> TRUE, guildId |-> guildId]
    /\ UNCHANGED <<games, game_sessions, guild_messages, friendships, inserted, now>>

\* positions of the guild_members documents of a guild, by_guild index order
MembersOf(guildId) ==
    {i \in 1..Len(guild_members) : guild_members[i].guildId = guildId}

\* mutant: the leaving owner finds no successor
NewOwner_None(guildId, userId) == 0

\* mutant: the first other member succeeds, admin or not
NewOwner_First(guildId, userId) ==
    LET others == {i \in MembersOf(guildId) : guild_members[i].userId # userId}
    IN IF others # {} THEN Min(others) ELSE 0

\* members.find(admin other than the leaver) || members.find(other than the leaver)
NewOwner(guildId, userId) ==
    LET admins == {i \in MembersOf(guildId) :
                      guild_members[i].userId # userId /\ guild_members[i].role = "admin"}
        others == {i \in MembersOf(guildId) : guild_members[i].userId # userId}
    IN IF admins # {} THEN Min(admins)
       ELSE IF others # {} THEN Min(others)
       ELSE 0

LeaveGuild(userId) ==
    LET user     == users[userId]
        gid      == user.guildId
        guild    == guilds[gid]
        members  == MembersOf(gid)
        newOwner == NewOwner(gid, userId)
        newOwnerId == guild_members[newOwner].userId
        left     == [guilds EXCEPT
                       ![gid].memberCount = guild.memberCount - 1,
                       ![gid].totalExp = guild.totalExp - user.exp,
                       ![gid].level = calculateLevelFromExp(guild.totalExp - user.exp).level]
        \* the new owner's first membership document gets role "owner"
        promoted == IF newOwner = 0 THEN guild_members
                    ELSE [guild_members EXCEPT
                            ![Membership(gid, newOwnerId)].role = "owner"]
        \* position of the leaver's membership after the role patch (positions unchanged)
        mine     == Membership(gid, userId)
    IN
    IF userId \notin DOMAIN users \/ (userId \in DOMAIN users /\ user.guildId = NoGuild)
    THEN Throw("leaveGuild", userId, "You are not in a guild")
    ELSE IF gid \notin DOMAIN guilds THEN Throw("leaveGuild", userId, "Guild not found")
    ELSE
    /\ IF guild.ownerId = userId
       THEN IF Cardinality(members) = 1
            THEN /\ guilds' = Del(guilds, gid)
                 /\ guild_messages' = SelectSeq(guild_messages, LAMBDA m : m.guildId # gid)
                 /\ guild_members' = SelectSeq(guild_members, LAMBDA m : m.guildId # gid)
            ELSE /\ guilds' = IF newOwner # 0
                              THEN [left EXCEPT ![gid].ownerId = newOwnerId]
                              ELSE guilds
                 /\ guild_members' = Without(promoted, mine)
                 /\ UNCHANGED guild_messages
       ELSE /\ guild_members' = Without(guild_members, mine)
            /\ guilds' = left
            /\ UNCHANGED guild_messages
    /\ users' = [users EXCEPT ![userId].guildId = NoGuild]
    /\ ret' = [op |-> "leaveGuild", user |-> userId, threw |-> FALSE,
               success |-> TRUE, guildId |-> gid]
    /\ UNCHANGED <<games, game_sessions, friendships, inserted, now>>

PromoteMember(ownerId, memberId, guildId) ==
    LET membership == Membership(guildId, memberId) IN
    IF guildId \notin DOMAIN guilds THEN Throw("promoteMember", ownerId, "Guild not found")
    ELSE IF guilds[guildId].ownerId # ownerId
    THEN Throw("promoteMember", ownerId, "Only the guild owner can promote members")
    ELSE IF membership = 0
    THEN Throw("promoteMember", ownerId, "User is not a member of this guild")
    ELSE IF guild_members[membership].role = "owner"
    THEN Throw("promoteMember", ownerId, "Cannot promote the guild owner")
    ELSE
    /\ guild_members' = [guild_members EXCEPT ![membership].role = "admin"]
    /\ ret' = [op |-> "promoteMember", user |-> ownerId, threw |-> FALSE,
               success |-> TRUE, member |-> memberId]
    /\ UNCHANGED <<users, games, game_sessions, guilds, guild_messages, friendships,
                   inserted, now>>

DemoteMember(ownerId, memberId, guildId) ==
    LET membership == Membership(guildId, memberId) IN
    IF guildId \notin DOMAIN guilds THEN Throw("demoteMember", ownerId, "Guild not found")
    ELSE IF guilds[guildId].ownerId # ownerId
    THEN Throw("demoteMember", ownerId, "Only the guild owner can demote members")
    ELSE IF membership = 0
    THEN Throw("demoteMember", ownerId, "User is not a member of this guild")
    ELSE IF guild_members[membership].role = "owner"
    THEN Throw("demoteMember", ownerId, "Cannot demote the guild owner")
    ELSE
    /\ guild_members' = [guild_members EXCEPT ![membership].role = "member"]
    /\ ret' = [op |-> "demoteMember", user |-> ownerId, threw |-> FALSE,
               success |-> TRUE, member |-> memberId]
    /\ UNCHANGED <<users, games, game_sessions, guilds, guild_messages, friendships,
                   inserted, now>>

KickMember(kickerId, memberId, guildId) ==
    LET guild            == guilds[guildId]
        kickerMembership == Membership(guildId, kickerId)
        kickerRole       == guild_members[kickerMembership].role
        memberToKick     == users[memberId]
        membership       == Membership(guildId, memberId)
    IN
    IF guildId \notin DOMAIN guilds THEN Throw("kickMember", kickerId, "Guild not found")
    ELSE IF kickerMembership = 0 \/ (kickerRole # "owner" /\ kickerRole # "admin")
    THEN Throw("kickMember", kickerId, "Only guild owners and admins can kick members")
    ELSE IF kickerId = memberId THEN Throw("kickMember", kickerId, "Cannot kick yourself")
    ELSE IF memberId \notin DOMAIN users
    THEN Throw("kickMember", kickerId, "Member not found")
    ELSE IF membership = 0
    THEN Throw("kickMember", kickerId, "User is not a member of this guild")
    ELSE IF guild_members[membership].role = "owner"
    THEN Throw("kickMember", kickerId, "Cannot kick the guild owner")
    ELSE IF kickerRole = "admin" /\ guild_members[membership].role = "admin"
    THEN Throw("kickMember", kickerId, "Admins cannot kick other admins")
    ELSE
    /\ guild_members' = Without(guild_members, membership)
    /\ guilds' = [guilds EXCEPT
                    ![guildId].memberCount = guild.memberCount - 1,
                    ![guildId].totalExp = guild.totalExp - memberToKick.exp,
                    ![guildId].level =
                        calculateLevelFromExp(guild.totalExp - memberToKick.exp).level]
    /\ users' = [users EXCEPT ![memberId].guildId = NoGuild]
    /\ ret' = [op |-> "kickMember", user |-> kickerId, threw |-> FALSE,
               success |-> TRUE, member |-> memberId]
    /\ UNCHANGED <<games, game_sessions, guild_messages, friendships, inserted, now>>

----------------------------------------------------------------------------
(* convex/guildMessages.ts; the content of a message is left out *)

SendMessage(guildId, userId) ==
    IF Membership(guildId, userId) = 0
    THEN Throw("sendMessage", userId, "You are not a member of this guild")
    ELSE IF userId \notin DOMAIN users THEN Throw("sendMessage", userId, "User not found")
    ELSE
    /\ Len(guild_messages) < MaxMessages
    /\ guild_messages' = Append(guild_messages, [guildId |-> guildId, userId |-> userId])
    /\ ret' = [op |-> "sendMessage", user |-> userId, threw |-> FALSE, success |-> TRUE]
    /\ UNCHANGED <<users, games, game_sessions, guilds, guild_members, friendships,
                   inserted, now>>

----------------------------------------------------------------------------
(* convex/friends.ts; createdAt and acceptedAt are left out *)

\* .withIndex("by_username").first(): the oldest user document with that name
UserByName(name) ==
    LET S == {u \in DOMAIN users : users[u].username = name} IN
    IF S = {} THEN "" ELSE CHOOSE u \in S : \A v \in S : u = "u1" \/ v # "u1"

\* .withIndex("by_requester_and_recipient").first(); 0 when null
Friendship(requesterId, recipientId) ==
    LET S == {f \in DOMAIN friendships :
                friendships[f].requesterId = requesterId
                /\ friendships[f].recipientId = recipientId}
    IN IF S = {} THEN 0 ELSE Min(S)

SendFriendRequest(requesterId, recipientUsername) ==
    LET recipient == UserByName(recipientUsername)
        existing  == Friendship(requesterId, recipient)
        reverse   == Friendship(recipient, requesterId)
        requestId == inserted.friendships + 1
    IN
    IF recipient = "" THEN Throw("sendFriendRequest", requesterId, "User not found")
    ELSE IF requesterId = recipient
    THEN Throw("sendFriendRequest", requesterId, "Cannot send friend request to yourself")
    ELSE IF existing # 0
    THEN Throw("sendFriendRequest", requesterId,
               IF friendships[existing].status = "accepted" THEN "Already friends"
               ELSE IF friendships[existing].status = "pending"
               THEN "Friend request already sent"
               ELSE "Friend request was rejected")
    ELSE IF reverse # 0 /\ friendships[reverse].status = "pending"
    THEN /\ friendships' = [friendships EXCEPT ![reverse].status = "accepted",
                                               ![reverse].acceptedBy = "sendFriendRequest"]
         /\ ret' = [op |-> "sendFriendRequest", user |-> requesterId, threw |-> FALSE,
                    success |-> TRUE, autoAccepted |-> TRUE]
         /\ UNCHANGED <<users, games, game_sessions, guilds, guild_members,
                        guild_messages, inserted, now>>
    ELSE IF reverse # 0 /\ friendships[reverse].status = "accepted"
    THEN Throw("sendFriendRequest", requesterId, "Already friends")
    ELSE
    /\ inserted.friendships < MaxFriendships
    /\ friendships' = Put(friendships, requestId,
                          [requesterId |-> requesterId, recipientId |-> recipient,
                           status |-> "pending",
                           acceptedBy |-> ""])   \* ghost: the mutation that accepted it
    /\ inserted' = [inserted EXCEPT !.friendships = requestId]
    /\ ret' = [op |-> "sendFriendRequest", user |-> requesterId, threw |-> FALSE,
               success |-> TRUE, autoAccepted |-> FALSE]
    /\ UNCHANGED <<users, games, game_sessions, guilds, guild_members, guild_messages, now>>

AcceptFriendRequest(requestId) ==
    LET request   == friendships[requestId]
        recipient == request.recipientId
    IN
    IF requestId \notin DOMAIN friendships
    THEN Throw("acceptFriendRequest", "", "Friend request not found")
    ELSE IF request.status # "pending"
    THEN Throw("acceptFriendRequest", "", "Friend request is not pending")
    ELSE
    /\ friendships' = [friendships EXCEPT ![requestId].status = "accepted",
                                          ![requestId].acceptedBy = "acceptFriendRequest"]
    /\ users' = IF recipient \in DOMAIN users
                THEN [users EXCEPT ![recipient].exp = @ + 10]
                ELSE users
    /\ ret' = [op |-> "acceptFriendRequest", user |-> recipient, threw |-> FALSE,
               success |-> TRUE]
    /\ UNCHANGED <<games, game_sessions, guilds, guild_members, guild_messages,
                   inserted, now>>

----------------------------------------------------------------------------
Next ==
    \/ Tick /\ UNCHANGED player
    \/ \E u \in UserIds, g \in GameIds : StartSession(u, g) /\ UNCHANGED player
    \/ \E u \in UserIds, c \in CompletedArgs : EndSession(u, c) /\ UNCHANGED player
    \/ \E u \in UserIds : UpdateSessionHeartbeat(u) /\ UNCHANGED player
    \/ \E u \in UserIds : ClearUserSessions(u) /\ UNCHANGED player
    \/ \E u \in UserIds, a \in ExpAmounts : AddExp(u, a) /\ UNCHANGED player
    \/ \E u \in UserIds, m \in MinuteArgs : UpdatePlaytime(u, m) /\ UNCHANGED player
    \/ \E u \in AnonIds, n \in NameArgs : CreateOrGetProfile(u, n) /\ UNCHANGED player
    \/ \E u \in ClerkIds, n \in NameArgs : SyncClerkUser(u, n) /\ UNCHANGED player
    \/ \E u \in UserIds, n \in NameArgs : UpdateProfile(u, n) /\ UNCHANGED player
    \/ FixUsers /\ UNCHANGED player
    \/ \E u \in UserIds : DeleteAccount(u) /\ UNCHANGED player
    \/ \E u \in UserIds, n \in GuildNames, p \in BOOLEAN : CreateGuild(u, n, p) /\ UNCHANGED player
    \/ \E u \in UserIds, g \in GuildIds : JoinGuild(u, g) /\ UNCHANGED player
    \/ \E u \in UserIds : LeaveGuild(u) /\ UNCHANGED player
    \/ \E o \in UserIds, m \in UserIds, g \in GuildIds : PromoteMember(o, m, g) /\ UNCHANGED player
    \/ \E o \in UserIds, m \in UserIds, g \in GuildIds : DemoteMember(o, m, g) /\ UNCHANGED player
    \/ \E k \in UserIds, m \in UserIds, g \in GuildIds : KickMember(k, m, g) /\ UNCHANGED player
    \/ \E u \in UserIds, n \in {Usernames[v] : v \in UserIds} : SendFriendRequest(u, n) /\ UNCHANGED player
    \/ \E f \in FriendshipIds : AcceptFriendRequest(f) /\ UNCHANGED player

\* the whole back end
Spec == Init /\ [][Next]_vars

\* The Session Manager alone: both users play.
NextSessions ==
    \/ Tick /\ UNCHANGED player
    \/ \E u \in UserIds, g \in GameIds : StartSession(u, g) /\ UNCHANGED player
    \/ \E u \in UserIds, c \in CompletedArgs : EndSession(u, c) /\ UNCHANGED player
    \/ \E u \in UserIds : UpdateSessionHeartbeat(u) /\ UNCHANGED player
    \/ \E u \in UserIds : ClearUserSessions(u) /\ UNCHANGED player

SpecSessions == Init /\ [][NextSessions]_vars

\* Sessions of one player inside a guild: the player plays and is awarded XP,
\* every user may found or join a guild.
NextAwards ==
    \/ Tick /\ UNCHANGED player
    \/ \E u \in Players, g \in GameIds : StartSession(u, g) /\ UNCHANGED player
    \/ \E u \in Players, c \in CompletedArgs : EndSession(u, c) /\ UNCHANGED player
    \/ \E u \in Players : UpdateSessionHeartbeat(u) /\ UNCHANGED player
    \/ \E u \in Players, a \in ExpAmounts : AddExp(u, a) /\ UNCHANGED player
    \/ \E u \in UserIds, n \in GuildNames, p \in BOOLEAN : CreateGuild(u, n, p) /\ UNCHANGED player
    \/ \E u \in UserIds, g \in GuildIds : JoinGuild(u, g) /\ UNCHANGED player

SpecAwards == Init /\ [][NextAwards]_vars

\* Guild membership, friendships and the XP sources outside sessions.
NextGuilds ==
    \/ \E u \in UserIds, a \in ExpAmounts : AddExp(u, a) /\ UNCHANGED player
    \/ \E u \in UserIds : DeleteAccount(u) /\ UNCHANGED player
    \/ \E u \in UserIds, n \in GuildNames, p \in BOOLEAN : CreateGuild(u, n, p) /\ UNCHANGED player
    \/ \E u \in UserIds, g \in GuildIds : JoinGuild(u, g) /\ UNCHANGED player
    \/ \E u \in UserIds : LeaveGuild(u) /\ UNCHANGED player
    \/ \E k \in UserIds, m \in UserIds, g \in GuildIds : KickMember(k, m, g) /\ UNCHANGED player
    \/ \E u \in UserIds, n \in {Usernames[v] : v \in UserIds} : SendFriendRequest(u, n) /\ UNCHANGED player
    \/ \E f \in FriendshipIds : AcceptFriendRequest(f) /\ UNCHANGED player

SpecGuilds == Init /\ [][NextGuilds]_vars

\* Sessions of accounts that may be deleted, and of games that may not exist:
\* the ids passed to the mutations need not name a stored document.
GameArgs == GameIds \cup {"g0"}

NextAccounts ==
    \/ Tick /\ UNCHANGED player
    \/ \E u \in Players, g \in GameArgs : StartSession(u, g) /\ UNCHANGED player
    \/ \E u \in Players, c \in CompletedArgs : EndSession(u, c) /\ UNCHANGED player
    \/ \E u \in Players : UpdateSessionHeartbeat(u) /\ UNCHANGED player
    \/ \E u \in UserIds : DeleteAccount(u) /\ UNCHANGED player

SpecAccounts == Init /\ [][NextAccounts]_vars

\* The mutations that write a user's exp and totalPlaytime, with every number the
\* argument validators accept.
NextTotals ==
    \/ Tick /\ UNCHANGED player
    \/ \E u \in Players, g \in GameIds : StartSession(u, g) /\ UNCHANGED player
    \/ \E u \in Players, c \in CompletedArgs : EndSession(u, c) /\ UNCHANGED player
    \/ \E u \in Players, a \in AnyAmounts : AddExp(u, a) /\ UNCHANGED player
    \/ \E u \in Players, m \in MinuteArgs : UpdatePlaytime(u, m) /\ UNCHANGED player

SpecTotals == Init /\ [][NextTotals]_vars

\* Sessions under a wall clock that may be set back.
NextClock ==
    \/ Tick /\ UNCHANGED player
    \/ TickBack /\ UNCHANGED player
    \/ \E u \in Players, g \in GameIds : StartSession(u, g) /\ UNCHANGED player
    \/ \E u \in Players, c \in CompletedArgs : EndSession(u, c) /\ UNCHANGED player
    \/ \E u \in Players : UpdateSessionHeartbeat(u) /\ UNCHANGED player

SpecClock == Init /\ [][NextClock]_vars

\* The Leveling Engine called on its own: the pure functions of convex/utils.ts
\* applied to every input up to the bounds.
CallCalculateLevelFromExp(totalExp) ==
    /\ ret' = [op |-> "calculateLevelFromExp", user |-> "", threw |-> FALSE,
               totalExp |-> totalExp, info |-> calculateLevelFromExp(totalExp)]
    /\ UNCHANGED <<db, now>>

CallGetTotalExpForLevel(level) ==
    LET total == getTotalExpForLevel(level) IN
    /\ ret' = [op |-> "getTotalExpForLevel", user |-> "", threw |-> FALSE,
               level |-> level, total |-> total,
               at |-> calculateLevelFromExp(total),
               below |-> calculateLevelFromExp(total - 1)]
    /\ UNCHANGED <<db, now>>

CallGetExpForLevel(level) ==
    /\ ret' = [op |-> "getExpForLevel", user |-> "", threw |-> FALSE,
               level |-> level, cost |-> getExpForLevel(level)]
    /\ UNCHANGED <<db, now>>

NextLevels ==
    \/ \E x \in 0..MaxTotalExp : CallCalculateLevelFromExp(x) /\ UNCHANGED player
    \/ \E l \in 1..MaxLevel : CallGetTotalExpForLevel(l) /\ UNCHANGED player
    \/ \E l \in 1..MaxLevel : CallGetExpForLevel(l) /\ UNCHANGED player

SpecLevels == Init /\ [][NextLevels]_vars

\* Guild membership and roles among three users: enough members for an admin to
\* exist beside an older plain member.
GuildUsers == UserIds \cup {"u3"}

InitOwners ==
    /\ users = [u \in GuildUsers |->
                  [username |-> IF u \in UserIds THEN Usernames[u] ELSE "carol",
                   exp |-> 0, level |-> 1,
                   totalPlaytime |-> 0, lastSeen |-> 0, guildId |-> NoGuild,
                   isAnonymous |-> TRUE]]
    /\ games = [g \in SeededGames |-> [playCount |-> 0]]
    /\ game_sessions = <<>>
    /\ guilds = <<>>
    /\ guild_members = <<>>
    /\ guild_messages = <<>>
    /\ friendships = <<>>
    /\ inserted = [game_sessions |-> 0, guilds |-> 0, friendships |-> 0]
    /\ now = 0
    /\ ret = [op |-> "init", user |-> "", threw |-> FALSE]
    /\ player = NoPlayer

NextOwners ==
    \/ \E u \in GuildUsers, n \in GuildNames, p \in BOOLEAN : CreateGuild(u, n, p) /\ UNCHANGED player
    \/ \E u \in GuildUsers, g \in GuildIds : JoinGuild(u, g) /\ UNCHANGED player
    \/ \E u \in GuildUsers : LeaveGuild(u) /\ UNCHANGED player
    \/ \E o \in GuildUsers, m \in GuildUsers, g \in GuildIds : PromoteMember(o, m, g) /\ UNCHANGED player
    \/ \E o \in GuildUsers, m \in GuildUsers, g \in GuildIds : DemoteMember(o, m, g) /\ UNCHANGED player
    \/ \E k \in GuildUsers, m \in GuildUsers, g \in GuildIds : KickMember(k, m, g) /\ UNCHANGED player
    \/ \E u \in Players, g \in GuildIds : SendMessage(g, u) /\ UNCHANGED player

SpecOwners == InitOwners /\ [][NextOwners]_vars

\* Profiles: accounts are created, renamed and deleted, starting from an empty
\* users table.
InitProfiles ==
    /\ users = <<>>
    /\ games = [g \in SeededGames |-> [playCount |-> 0]]
    /\ game_sessions = <<>>
    /\ guilds = <<>>
    /\ guild_members = <<>>
    /\ guild_messages = <<>>
    /\ friendships = <<>>
    /\ inserted = [game_sessions |-> 0, guilds |-> 0, friendships |-> 0]
    /\ now = 0
    /\ ret = [op |-> "init", user |-> "", threw |-> FALSE]
    /\ player = NoPlayer

NextProfiles ==
    \/ Tick /\ UNCHANGED player
    \/ \E u \in AnonIds, n \in NameArgs : CreateOrGetProfile(u, n) /\ UNCHANGED player
    \/ \E u \in ClerkIds, n \in NameArgs : SyncClerkUser(u, n) /\ UNCHANGED player
    \/ \E u \in UserIds, n \in NameArgs : UpdateProfile(u, n) /\ UNCHANGED player
    \/ FixUsers /\ UNCHANGED player
    \/ \E u \in UserIds : DeleteAccount(u) /\ UNCHANGED player

SpecProfiles == InitProfiles /\ [][NextProfiles]_vars

\* Memberships: guilds are created, joined and left, members are kicked and
\* accounts deleted; joinGuild is also called with the id of a guild that does
\* not exist.
GuildArgs == GuildIds \cup {MaxGuilds + 1}

NextMemberships ==
    \/ \E u \in UserIds : DeleteAccount(u) /\ UNCHANGED player
    \/ \E u \in UserIds, n \in GuildNames, p \in BOOLEAN : CreateGuild(u, n, p) /\ UNCHANGED player
    \/ \E u \in UserIds, g \in GuildArgs : JoinGuild(u, g) /\ UNCHANGED player
    \/ \E u \in UserIds : LeaveGuild(u) /\ UNCHANGED player
    \/ \E k \in UserIds, m \in UserIds, g \in GuildIds : KickMember(k, m, g) /\ UNCHANGED player

SpecMemberships == Init /\ [][NextMemberships]_vars

----------------------------------------------------------------------------
(* src/components/FriendsPanel.tsx: GamePlayer *)

\* the games the client lists
PlayGames == GameIds \cup {"g2"}

\* cleanup of the session effect: endSession is issued only when
\* sessionIdRef.current is set
Cleanup(calls) ==
    IF player.ref # 0
    THEN Append(calls, [op |-> "endSession", gameId |-> NoGame, inst |-> player.inst])
    ELSE calls

\* the session effect: startSession is issued; its response will be stored in
\* the sessionIdRef of the instance that issued it
InitSession(calls, gameId, inst) ==
    Append(calls, [op |-> "startSession", gameId |-> gameId, inst |-> inst])

\* a game is selected while none is shown: a new GamePlayer instance, whose
\* sessionIdRef is null, is mounted and its session effect runs
MountPlayer(gameId) ==
    /\ player.game = NoGame
    /\ player.inst < MaxMounts
    /\ Len(player.calls) < MaxCalls
    /\ player' = [player EXCEPT !.game = gameId, !.inst = @ + 1, !.ref = 0,
                                !.calls = InitSession(@, gameId, player.inst + 1)]
    /\ UNCHANGED <<db, now, ret>>

\* the user leaves the home view: the instance is unmounted, the cleanup runs
UnmountPlayer ==
    /\ player.game # NoGame
    /\ Len(player.calls) < MaxCalls
    /\ player' = [player EXCEPT !.game = NoGame, !.calls = Cleanup(@)]
    /\ UNCHANGED <<db, now, ret>>

\* another game is selected: game._id changes in the same instance (the ref is
\* kept), the cleanup of the old effect runs and then the new effect
SwitchGame(gameId) ==
    /\ player.game \notin {NoGame, gameId}
    /\ Len(player.calls) + 2 <= MaxCalls
    /\ player' = [player EXCEPT !.game = gameId,
                                !.calls = InitSession(Cleanup(@), gameId, player.inst)]
    /\ UNCHANGED <<db, now, ret>>

\* the server runs the client's oldest mutation (the Convex client sends its
\* mutations in order); the response of startSession travels back
ServeCall(userId) ==
    /\ player.calls # <<>>
    /\ LET call == Head(player.calls) IN
       \/ /\ call.op = "startSession"
          /\ StartSession(userId, call.gameId)
          /\ player' = [player EXCEPT
                          !.calls = Tail(@),
                          !.replies = IF ret'.threw THEN @
                                      ELSE Append(@, [inst |-> call.inst,
                                                      sessionId |-> ret'.sessionId])]
       \/ /\ call.op = "endSession"
          /\ EndSession(userId, "false")
          /\ player' = [player EXCEPT !.calls = Tail(@)]

\* `await startSession(...)` resumes: sessionIdRef.current = result.sessionId,
\* in the instance that made the call (an instance that is gone is not seen again)
DeliverReply ==
    /\ player.replies # <<>>
    /\ LET reply == Head(player.replies) IN
       player' = [player EXCEPT
                    !.replies = Tail(@),
                    !.ref = IF reply.inst = player.inst THEN reply.sessionId ELSE @]
    /\ UNCHANGED <<db, now, ret>>

InitPlayer ==
    /\ users = [u \in UserIds |->
                  [username |-> Usernames[u], exp |-> 0, level |-> 1,
                   totalPlaytime |-> 0, lastSeen |-> 0, guildId |-> NoGuild,
                   isAnonymous |-> TRUE]]
    /\ games = [g \in PlayGames |-> [playCount |-> 0]]
    /\ game_sessions = <<>>
    /\ guilds = <<>>
    /\ guild_members = <<>>
    /\ guild_messages = <<>>
    /\ friendships = <<>>
    /\ inserted = [game_sessions |-> 0, guilds |-> 0, friendships |-> 0]
    /\ now = 0
    /\ ret = [op |-> "init", user |-> "", threw |-> FALSE]
    /\ player = NoPlayer

\* Player: the one signed-in user opens, switches and leaves games; the only
\* session mutations are those of the GamePlayer.
NextPlayer ==
    \/ Tick /\ UNCHANGED player
    \/ \E g \in PlayGames : MountPlayer(g)
    \/ UnmountPlayer
    \/ \E g \in PlayGames : SwitchGame(g)
    \/ \E u \in Players : ServeCall(u)
    \/ DeliverReply

SpecPlayer == InitPlayer /\ [][NextPlayer]_vars

\* Ledger: everything that credits the user who plays, without clearUserSessions,
\* addExp and updatePlaytime, and without the calls that delete guilds or
\* friendships.
NextLedger ==
    \/ Tick /\ UNCHANGED player
    \/ \E u \in Players, g \in GameIds : StartSession(u, g) /\ UNCHANGED player
    \/ \E u \in Players, c \in CompletedArgs : EndSession(u, c) /\ UNCHANGED player
    \/ \E u \in Players : UpdateSessionHeartbeat(u) /\ UNCHANGED player
    \/ \E u \in Players, n \in GuildNames, p \in BOOLEAN : CreateGuild(u, n, p) /\ UNCHANGED player
    \/ \E u \in UserIds, n \in {Usernames[v] : v \in UserIds} : SendFriendRequest(u, n) /\ UNCHANGED player
    \/ \E f \in FriendshipIds : AcceptFriendRequest(f) /\ UNCHANGED player

SpecLedger == Init /\ [][NextLedger]_vars

----------------------------------------------------------------------------
(* Claims *)

\* the position of the session document with the given _id (0 when deleted)
SessionAt(id) ==
    LET S == {i \in 1..Len(game_sessions) : game_sessions[i]._id = id}
    IN IF S = {} THEN 0 ELSE Min(S)

\* C1: every user has at most one open session (completed = false) in every
\* reachable state, and right after startSession(user, game) has returned the
\* user has exactly one open session, the one just inserted.
C1_AtMostOneOpenSession ==
    /\ \A u \in UserIds : Cardinality(OpenSessions(u)) <= 1
    /\ (ret.op = "startSession" /\ ~ret.threw) =>
          /\ Cardinality(OpenSessions(ret.user)) = 1
          /\ \A i \in OpenSessions(ret.user) : game_sessions[i]._id = ret.sessionId

\* C1 witness: a startSession that found an open session of the user and replaced it
C1_Witness ==
    /\ ret.op = "startSession"
    /\ ret.forceClosed # 0
    /\ SessionAt(ret.forceClosed) # 0
    /\ game_sessions[SessionAt(ret.forceClosed)].completed

\* the summed exp of the users who hold a guild_members document of the guild
RECURSIVE SumExp(_)
SumExp(S) ==
    IF S = {} THEN 0
    ELSE LET u == CHOOSE x \in S : TRUE
         IN (IF u \in DOMAIN users THEN users[u].exp ELSE 0) + SumExp(S \ {u})

MemberIds(guildId) == {guild_members[i].userId : i \in MembersOf(guildId)}

\* C2: for every existing guild the stored totalExp equals the sum of the current
\* exp of its current members.
C2_GuildAggregateNoDrift ==
    \A g \in DOMAIN guilds : guilds[g].totalExp = SumExp(MemberIds(g))

\* C3: a startSession at time `now` for a user whose open session started at s
\* closes that session with duration = floor((now - s) / 60000) and
\* expAwarded = 10 * duration (no +50), adds exactly expAwarded to the user's exp
\* and duration to totalPlaytime, and the new session is inserted after it.
C3_ForceClosePreservesXp ==
    [][\A u \in UserIds, g \in GameIds :
        (StartSession(u, g) /\ ActiveSession(u) # 0 /\ u \in DOMAIN users) =>
            LET a == ActiveSession(u)
                d == game_sessions'[a].duration
                x == game_sessions'[a].expAwarded
            IN  /\ d * 60000 <= now - game_sessions[a].startTime
                /\ now - game_sessions[a].startTime < (d + 1) * 60000
                /\ x = 10 * d
                /\ game_sessions'[a].completed
                /\ game_sessions'[a].endTime = now
                /\ users'[u].exp = users[u].exp + x
                /\ users'[u].totalPlaytime = users[u].totalPlaytime + d
                /\ Len(game_sessions') = Len(game_sessions) + 1
                /\ a < Len(game_sessions')
                /\ ~game_sessions'[Len(game_sessions')].completed
    ]_vars

\* C3 witness: a force-closed session of two minutes, 20 XP credited to the user
C3_Witness ==
    /\ ret.op = "startSession"
    /\ ret.forceClosed # 0
    /\ SessionAt(ret.forceClosed) # 0
    /\ game_sessions[SessionAt(ret.forceClosed)].duration = 2
    /\ game_sessions[SessionAt(ret.forceClosed)].expAwarded = 20
    /\ users[ret.user].exp = 20
    /\ users[ret.user].totalPlaytime = 2

\* C4: when startSession force-closes the open session of a guild member, the XP
\* awarded for it is added to the guild's totalExp as well as to the user.
C4_ForceCloseAwardsGuild ==
    [][\A u \in UserIds, g \in GameIds :
        (StartSession(u, g) /\ ActiveSession(u) # 0 /\ u \in DOMAIN users
         /\ users[u].guildId \in DOMAIN guilds) =>
            guilds'[users[u].guildId].totalExp =
                guilds[users[u].guildId].totalExp
                    + game_sessions'[ActiveSession(u)].expAwarded
    ]_vars

\* C5: endSession(user, completed) at time `now` on an open session started at s
\* closes it with duration = floor((now - s) / 60000) and expAwarded =
\* 10 * duration + (50 only if completed is true); the user's exp grows by
\* expAwarded and totalPlaytime by duration; the call returns these values and the
\* stored new totals; the user has no open session afterwards.  Start at 0 with
\* 0 XP, end at 125000 ms with completed = true: duration 2, 70 XP, total 70.
C5_EndSessionAward ==
    [][\A u \in UserIds, c \in CompletedArgs :
        (EndSession(u, c) /\ ActiveSession(u) # 0 /\ u \in DOMAIN users) =>
            LET a == ActiveSession(u)
                s == game_sessions[a].startTime
                d == ret'.duration
            IN  /\ ~ret'.threw /\ ret'.success
                /\ d * 60000 <= now - s /\ now - s < (d + 1) * 60000
                /\ ret'.expAwarded = 10 * d + (IF c = "true" THEN 50 ELSE 0)
                /\ game_sessions'[a].duration = d
                /\ game_sessions'[a].expAwarded = ret'.expAwarded
                /\ game_sessions'[a].completed
                /\ game_sessions'[a].endTime = now
                /\ users'[u].exp = users[u].exp + ret'.expAwarded
                /\ users'[u].totalPlaytime = users[u].totalPlaytime + d
                /\ ret'.totalExp = users'[u].exp
                /\ ret'.totalPlaytime = users'[u].totalPlaytime
                /\ OpenSessions(u)' = {}
                /\ (s = 0 /\ now = 125000 /\ users[u].exp = 0 /\ c = "true") =>
                        (d = 2 /\ ret'.expAwarded = 70 /\ ret'.totalExp = 70)
    ]_vars

\* C5 witness: the end-to-end example, a completed session from 0 to 125000 ms
C5_Witness ==
    /\ ret.op = "endSession" /\ ~ret.threw
    /\ ret.completed = "true"
    /\ now = 125000
    /\ ret.duration = 2 /\ ret.expAwarded = 70 /\ ret.totalExp = 70
    /\ SessionAt(ret.sessionId) # 0
    /\ game_sessions[SessionAt(ret.sessionId)].startTime = 0
    /\ users[ret.user].exp = 70

\* C6: when endSession awards x XP to a member of guild G, G's totalExp becomes
\* its previous value plus x and G's level becomes
\* calculateLevelFromExp(new totalExp).level.
C6_GuildRollupOnEndSession ==
    [][\A u \in UserIds, c \in CompletedArgs :
        (EndSession(u, c) /\ ActiveSession(u) # 0 /\ u \in DOMAIN users
         /\ users[u].guildId \in DOMAIN guilds) =>
            LET G == users[u].guildId IN
            /\ guilds'[G].totalExp = guilds[G].totalExp + ret'.expAwarded
            /\ guilds'[G].level = calculateLevelFromExp(guilds'[G].totalExp).level
    ]_vars

\* C7: in every reachable state every user's stored level equals
\* calculateLevelFromExp(exp).level.
C7_StoredLevelIsDerived ==
    \A u \in DOMAIN users : users[u].level = calculateLevelFromExp(users[u].exp).level

\* C8: addExp(user, a) sets exp to old exp + a and level to the level derived from
\* the new exp, returns the derived levels before and after with leveledUp exactly
\* when the level rose, and adds a to the totalExp of the user's guild, whose level
\* becomes the level derived from its new total; for a missing user it throws and
\* changes nothing.
C8_AddExpRules ==
    [][\A u \in UserIds, a \in ExpAmounts :
        AddExp(u, a) =>
            IF u \notin DOMAIN users
            THEN ret'.threw /\ UNCHANGED db
            ELSE LET G == users[u].guildId IN
                 /\ ~ret'.threw
                 /\ users'[u].exp = users[u].exp + a
                 /\ users'[u].level = calculateLevelFromExp(users'[u].exp).level
                 /\ ret'.totalExp = users'[u].exp
                 /\ ret'.oldLevel = calculateLevelFromExp(users[u].exp).level
                 /\ ret'.newLevel = calculateLevelFromExp(users'[u].exp).level
                 /\ ret'.leveledUp = (ret'.newLevel > ret'.oldLevel)
                 /\ (G \in DOMAIN guilds) =>
                        /\ guilds'[G].totalExp = guilds[G].totalExp + a
                        /\ guilds'[G].level =
                              calculateLevelFromExp(guilds'[G].totalExp).level
    ]_vars

\* C8 witness: an addExp that raised a guild member to level 2 and the guild with it
C8_Witness ==
    /\ ret.op = "addExp" /\ ~ret.threw
    /\ ret.leveledUp /\ ret.oldLevel = 1 /\ ret.newLevel = 2
    /\ users[ret.user].guildId \in DOMAIN guilds
    /\ guilds[users[ret.user].guildId].totalExp >= 300
    /\ guilds[users[ret.user].guildId].level = 2

\* C9: the +10 XP of acceptFriendRequest and the +100 XP of createGuild are also
\* added to the totalExp of the guild of the awarded user (for createGuild, the
\* guild just created), so the guild gains what the user gains.
C9_BonusesReachGuild ==
    [][/\ \A f \in FriendshipIds :
            (AcceptFriendRequest(f) /\ ~ret'.threw
             /\ ret'.user \in DOMAIN users
             /\ users[ret'.user].guildId \in DOMAIN guilds) =>
                guilds'[users[ret'.user].guildId].totalExp =
                    guilds[users[ret'.user].guildId].totalExp
                        + (users'[ret'.user].exp - users[ret'.user].exp)
       /\ \A u \in UserIds, n \in GuildNames, p \in BOOLEAN :
            (CreateGuild(u, n, p) /\ ~ret'.threw) =>
                guilds'[ret'.guildId].totalExp = users'[u].exp
    ]_vars

\* C10: a heartbeat of a user with an open session changes no session, game or
\* guild document and, of the users table, only that user's lastSeen; the open
\* session keeps duration 0, expAwarded 0, completed false and no endTime; the
\* returned currentDuration and estimatedExp = 10 * currentDuration are not stored.
C10_HeartbeatFrame ==
    [][\A u \in UserIds :
        (UpdateSessionHeartbeat(u) /\ ActiveSession(u) # 0 /\ u \in DOMAIN users) =>
            LET a == ActiveSession(u) IN
            /\ game_sessions' = game_sessions
            /\ game_sessions'[a].duration = 0
            /\ game_sessions'[a].expAwarded = 0
            /\ ~game_sessions'[a].completed
            /\ game_sessions'[a].endTime = NoTime
            /\ guilds' = guilds
            /\ guild_members' = guild_members
            /\ games' = games
            /\ DOMAIN users' = DOMAIN users
            /\ \A v \in DOMAIN users :
                    users'[v] = [users[v] EXCEPT
                                   !.lastSeen = IF v = u THEN now ELSE @]
            /\ ret'.success
            /\ ret'.currentDuration * 60000 <= now - game_sessions[a].startTime
            /\ now - game_sessions[a].startTime < (ret'.currentDuration + 1) * 60000
            /\ ret'.estimatedExp = 10 * ret'.currentDuration
    ]_vars

\* C10 witness: a heartbeat two minutes into the session of a guild member
C10_Witness ==
    /\ ret.op = "updateSessionHeartbeat" /\ ~ret.threw /\ ret.success
    /\ ret.currentDuration = 2 /\ ret.estimatedExp = 20
    /\ users[ret.user].guildId \in DOMAIN guilds
    /\ users[ret.user].lastSeen = now
    /\ ActiveSession(ret.user) # 0
    /\ game_sessions[ActiveSession(ret.user)].expAwarded = 0

\* what endSession(u, c) would write if it ran now: the award fields of the closed
\* session and the user's new totals ("none" without an open session or user)
EndOutcome(u, c) ==
    LET a == ActiveSession(u)
        d == (now - game_sessions[a].startTime) \div 60000
        x == calculateExpFromPlaytime(d) + (IF c = "true" THEN 50 ELSE 0)
    IN IF a = 0 \/ u \notin DOMAIN users THEN [session |-> 0]
       ELSE [session |-> game_sessions[a]._id, endTime |-> now, duration |-> d,
             expAwarded |-> x, completed |-> TRUE,
             exp |-> users[u].exp + x,
             totalPlaytime |-> users[u].totalPlaytime + d]

\* C11: a heartbeat and an endSession of the same user commute on the award state:
\* a heartbeat before endSession changes nothing endSession's result depends on
\* (endSession writes the same endTime, duration, expAwarded, completed, exp and
\* totalPlaytime as it would have without the heartbeat), and a heartbeat of a user
\* without an open session returns success = false, throws nothing and changes no
\* document.
C11_HeartbeatEndRace ==
    [][\A u \in UserIds :
        /\ UpdateSessionHeartbeat(u) =>
              /\ \A c \in CompletedArgs : EndOutcome(u, c)' = EndOutcome(u, c)
              /\ (ActiveSession(u) = 0) =>
                    (~ret'.threw /\ ~ret'.success /\ UNCHANGED db)
        /\ \A c \in CompletedArgs :
              (EndSession(u, c) /\ ActiveSession(u) # 0 /\ u \in DOMAIN users) =>
                 LET a == ActiveSession(u)
                     o == EndOutcome(u, c)
                 IN  /\ game_sessions'[a]._id = o.session
                     /\ game_sessions'[a].endTime = o.endTime
                     /\ game_sessions'[a].duration = o.duration
                     /\ game_sessions'[a].expAwarded = o.expAwarded
                     /\ game_sessions'[a].completed = o.completed
                     /\ users'[u].exp = o.exp
                     /\ users'[u].totalPlaytime = o.totalPlaytime
    ]_vars

\* C11 witness: a heartbeat that arrived after endSession had closed a two-minute
\* session; it reports no active session and the closed record keeps its award
C11_Witness ==
    /\ ret.op = "updateSessionHeartbeat" /\ ~ret.threw /\ ~ret.success
    /\ OpenSessions(ret.user) = {}
    /\ \E i \in 1..Len(game_sessions) :
          /\ game_sessions[i].userId = ret.user
          /\ game_sessions[i].completed
          /\ game_sessions[i].endTime = now
          /\ game_sessions[i].duration = 2
          /\ game_sessions[i].expAwarded = 70
    /\ users[ret.user].exp = 70
    /\ users[ret.user].lastSeen = now

\* C12: endSession for a user without an open session fails with "No active
\* session found", and every failing endSession (no open session, or an open
\* session whose user document is gone) changes no session, user, game or guild
\* document.
C12_EndSessionFailsCleanly ==
    [][\A u \in UserIds, c \in CompletedArgs :
        EndSession(u, c) =>
            /\ (ActiveSession(u) = 0) =>
                    (ret'.threw /\ ret'.error = "No active session found")
            /\ (ActiveSession(u) # 0 /\ u \notin DOMAIN users) => ret'.threw
            /\ ret'.threw =>
                    /\ game_sessions' = game_sessions
                    /\ users' = users
                    /\ games' = games
                    /\ guilds' = guilds
                    /\ UNCHANGED db
    ]_vars

\* C12 witness: endSession failed with "User not found" for a deleted account whose
\* session, one minute old, is still open and carries no award
C12_Witness ==
    /\ ret.op = "endSession" /\ ret.threw /\ ret.error = "User not found"
    /\ ret.user \notin DOMAIN users
    /\ ActiveSession(ret.user) # 0
    /\ now - game_sessions[ActiveSession(ret.user)].startTime >= 60000
    /\ game_sessions[ActiveSession(ret.user)].endTime = NoTime
    /\ game_sessions[ActiveSession(ret.user)].expAwarded = 0

\* C13: startSession(userId, gameId) fails when no user document has that id, and
\* when no game document has that id; in both cases no session is inserted and no
\* other document changes.
C13_StartSessionRejectsUnknown ==
    [][\A u \in UserIds, g \in GameArgs :
        (StartSession(u, g) /\ (u \notin DOMAIN users \/ g \notin DOMAIN games)) =>
            (ret'.threw /\ UNCHANGED db)
    ]_vars

\* the position in the table `sessions` of the document with the given _id (0: none)
SessionIn(sessions, id) ==
    LET S == {i \in 1..Len(sessions) : sessions[i]._id = id}
    IN IF S = {} THEN 0 ELSE Min(S)

\* C14: a closed session keeps its endTime, duration, expAwarded and completed
\* fields in every later step and is never reopened; it can only disappear, and only
\* by clearUserSessions; an open session has duration 0, expAwarded 0 and no endTime.
C14_ClosedSessionsFrozen ==
    [][/\ \A i \in 1..Len(game_sessions) :
            game_sessions[i].completed =>
                LET j == SessionIn(game_sessions', game_sessions[i]._id) IN
                IF j = 0 THEN ret'.op = "clearUserSessions"
                              /\ ret'.user = game_sessions[i].userId
                ELSE game_sessions'[j] = game_sessions[i]
       /\ \A j \in 1..Len(game_sessions') :
            ~game_sessions'[j].completed =>
                /\ game_sessions'[j].duration = 0
                /\ game_sessions'[j].expAwarded = 0
                /\ game_sessions'[j].endTime = NoTime
    ]_vars

\* C14 witness: after a session was closed with 70 XP, the same user started and
\* ended another session; the first record still holds its award
C14_Witness ==
    /\ ret.op = "endSession" /\ ~ret.threw
    /\ \E i, j \in 1..Len(game_sessions) :
          /\ i < j
          /\ game_sessions[i].userId = ret.user
          /\ game_sessions[j].userId = ret.user
          /\ game_sessions[j]._id = ret.sessionId
          /\ game_sessions[i].completed
          /\ game_sessions[i].endTime < game_sessions[j].startTime
          /\ game_sessions[i].expAwarded = 60
          /\ game_sessions[i].duration = 1

\* C15: in every step every user's exp and totalPlaytime are at least what they were
\* before the step, and they are never negative.
C15_TotalsNeverDecrease ==
    [][\A u \in DOMAIN users \cap DOMAIN users' :
        /\ users'[u].exp >= users[u].exp
        /\ users'[u].totalPlaytime >= users[u].totalPlaytime
        /\ users'[u].exp >= 0
        /\ users'[u].totalPlaytime >= 0
    ]_vars

\* C16: whatever the clock reads when endSession, startSession's force-close or the
\* heartbeat runs, also a time before the session's startTime, the duration and
\* expAwarded written to a session, the amounts added to the user's exp and
\* totalPlaytime and the heartbeat's preview are >= 0; and
\* calculateExpFromPlaytime(m) = 10 * m for the whole minutes m >= 0.
C16_AwardsNeverNegative ==
    [][/\ \A j \in 1..Len(game_sessions') :
            game_sessions'[j].duration >= 0 /\ game_sessions'[j].expAwarded >= 0
       /\ \A u \in DOMAIN users \cap DOMAIN users' :
            /\ users'[u].exp >= users[u].exp
            /\ users'[u].totalPlaytime >= users[u].totalPlaytime
       /\ (ret'.op = "updateSessionHeartbeat" /\ ret'.success) =>
            (ret'.currentDuration >= 0 /\ ret'.estimatedExp >= 0)
       /\ \A m \in 0..MaxTicks : calculateExpFromPlaytime(m) = 10 * m
    ]_vars

\* cost(n) = floor(n * 100 * 1.5^(n-1)) for n > 1 and 0 otherwise, and the
\* cumulative cost cost(2) + ... + cost(L) of reaching level L
DocCost(n) == IF n > 1 THEN (n * 100 * Pow(3, n - 1)) \div Pow(2, n - 1) ELSE 0

RECURSIVE DocCumulative(_)
DocCumulative(L) == IF L <= 1 THEN 0 ELSE DocCumulative(L - 1) + DocCost(L)

\* C17: calculateLevelFromExp(totalExp), totalExp >= 0, returns as level the largest
\* L >= 1 whose cumulative cost is <= totalExp, as currentLevelExp totalExp minus
\* that cumulative cost and as nextLevelExp cost(level + 1); totalExp = 0 gives
\* level 1 and currentLevelExp 0; always 0 <= currentLevelExp < nextLevelExp.
C17_LevelDerivation ==
    (ret.op = "calculateLevelFromExp") =>
        LET x == ret.totalExp
            r == ret.info
        IN  /\ r.level >= 1
            /\ DocCumulative(r.level) <= x
            /\ \A L \in 1..(MaxLevel + 1) : DocCumulative(L) <= x => L <= r.level
            /\ r.currentLevelExp = x - DocCumulative(r.level)
            /\ r.nextLevelExp = DocCost(r.level + 1)
            /\ 0 <= r.currentLevelExp /\ r.currentLevelExp < r.nextLevelExp
            /\ (x = 0) => (r.level = 1 /\ r.currentLevelExp = 0)

\* C17 witness: 1000 XP is level 3 (300 + 675 = 975), 25 XP into a level that
\* costs 1350
C17_Witness ==
    /\ ret.op = "calculateLevelFromExp"
    /\ ret.totalExp = 1000
    /\ ret.info.level = 3
    /\ ret.info.currentLevelExp = 25
    /\ ret.info.nextLevelExp = 1350

\* C18: for every level L from 1 to the bound,
\* calculateLevelFromExp(getTotalExpForLevel(L)).level = L and, for L >= 2,
\* calculateLevelFromExp(getTotalExpForLevel(L) - 1).level = L - 1.
C18_LevelRoundTrip ==
    (ret.op = "getTotalExpForLevel") =>
        /\ ret.at.level = ret.level
        /\ (ret.level >= 2) => (ret.below.level = ret.level - 1)

\* C18 witness: level 5 needs 300 + 675 + 1350 + 2531 = 4856 XP in total
C18_Witness ==
    /\ ret.op = "getTotalExpForLevel"
    /\ ret.level = 5
    /\ ret.total = 4856
    /\ ret.at.level = 5
    /\ ret.below.level = 4

\* C19: calculateLevelFromExp(a).level <= calculateLevelFromExp(b).level for all
\* 0 <= a <= b up to the bound, and getExpForLevel(level2) > getExpForLevel(level1)
\* for all levels level2 > level1 >= 1.
C19_LevelMonotone ==
    /\ (ret.op = "calculateLevelFromExp") =>
           \A b \in ret.totalExp..MaxTotalExp :
               ret.info.level <= calculateLevelFromExp(b).level
    /\ (ret.op = "getExpForLevel") =>
           \A level2 \in (ret.level + 1)..(MaxLevel + 1) :
               getExpForLevel(level2) > ret.cost

\* C19 witness: the cost of level 3, 675, above which every later level costs more
C19_Witness ==
    /\ ret.op = "getExpForLevel"
    /\ ret.level = 3
    /\ ret.cost = 675
    /\ getExpForLevel(2) = 300
    /\ getExpForLevel(4) = 1350

\* C20: joinGuild adds the joining user's current exp to the guild's totalExp;
\* leaveGuild (by a member, or by the owner of a guild with other members) and
\* kickMember subtract the departing user's current exp; each changes memberCount
\* by exactly one and sets the guild's level to
\* calculateLevelFromExp(new totalExp).level; the user's exp is not changed.
C20_MembershipMovesXp ==
    [][/\ \A u \in UserIds, g \in GuildIds :
            (JoinGuild(u, g) /\ ~ret'.threw) =>
                /\ guilds'[g].totalExp = guilds[g].totalExp + users[u].exp
                /\ guilds'[g].memberCount = guilds[g].memberCount + 1
                /\ guilds'[g].level = calculateLevelFromExp(guilds'[g].totalExp).level
                /\ users'[u].exp = users[u].exp
       /\ \A u \in UserIds :
            (LeaveGuild(u) /\ ~ret'.threw
             /\ ~(guilds[users[u].guildId].ownerId = u
                  /\ Cardinality(MembersOf(users[u].guildId)) = 1)) =>
                LET g == users[u].guildId IN
                /\ g \in DOMAIN guilds'
                /\ guilds'[g].totalExp = guilds[g].totalExp - users[u].exp
                /\ guilds'[g].memberCount = guilds[g].memberCount - 1
                /\ guilds'[g].level = calculateLevelFromExp(guilds'[g].totalExp).level
                /\ users'[u].exp = users[u].exp
       /\ \A k \in UserIds, m \in UserIds, g \in GuildIds :
            (KickMember(k, m, g) /\ ~ret'.threw) =>
                /\ guilds'[g].totalExp = guilds[g].totalExp - users[m].exp
                /\ guilds'[g].memberCount = guilds[g].memberCount - 1
                /\ guilds'[g].level = calculateLevelFromExp(guilds'[g].totalExp).level
                /\ users'[m].exp = users[m].exp
    ]_vars

\* C20 witness: the founder of a guild, holding 350 XP, has left it to its other
\* member; the guild lives on with one member and a new owner
C20_Witness ==
    /\ ret.op = "leaveGuild" /\ ~ret.threw
    /\ ret.guildId \in DOMAIN guilds
    /\ users[ret.user].exp = 350
    /\ users[ret.user].guildId = NoGuild
    /\ guilds[ret.guildId].ownerId # ret.user
    /\ guilds[ret.guildId].memberCount = 1
    /\ Cardinality(MembersOf(ret.guildId)) = 1

\* C21: when the owner leaves a guild that has other members, the guild still
\* exists, its ownerId is a remaining member whose role is now "owner", who was an
\* admin if any other member was an admin, and the former owner has no membership
\* and no guildId; when the owner is the only member, the guild, its membership
\* document and all its messages are deleted and the user's guildId is cleared.
C21_OwnershipTransfer ==
    [][\A u \in GuildUsers :
        (LeaveGuild(u) /\ ~ret'.threw /\ guilds[users[u].guildId].ownerId = u) =>
            LET g      == users[u].guildId
                others == {i \in MembersOf(g) : guild_members[i].userId # u}
                admins == {i \in others : guild_members[i].role = "admin"}
                left   == {j \in 1..Len(guild_members') : guild_members'[j].guildId = g}
            IN
            /\ users'[u].guildId = NoGuild
            /\ \A j \in left : guild_members'[j].userId # u
            /\ IF Cardinality(MembersOf(g)) > 1
               THEN /\ g \in DOMAIN guilds'
                    /\ guilds'[g].ownerId # u
                    /\ \E j \in left :
                          /\ guild_members'[j].userId = guilds'[g].ownerId
                          /\ guild_members'[j].role = "owner"
                    /\ (admins # {}) =>
                          \E i \in admins :
                              guild_members[i].userId = guilds'[g].ownerId
               ELSE /\ g \notin DOMAIN guilds'
                    /\ left = {}
                    /\ \A k \in 1..Len(guild_messages') : guild_messages'[k].guildId # g
    ]_vars

\* C21 witness: the owner has left and the guild went to an admin who joined after
\* a plain member that is still in the guild
C21_Witness ==
    /\ ret.op = "leaveGuild" /\ ~ret.threw
    /\ ret.guildId \in DOMAIN guilds
    /\ Membership(ret.guildId, ret.user) = 0
    /\ \E i, j \in MembersOf(ret.guildId) :
          /\ i < j
          /\ guild_members[i].role = "member"
          /\ guild_members[j].role = "owner"
          /\ guild_members[j].userId = guilds[ret.guildId].ownerId

\* C22: after a successful deleteAccount(user) the user document is gone, no
\* guild_members document and no friendships document (as requester or recipient,
\* whatever its status) names that user, and the memberCount of the guild the
\* user belonged to is one less than before.
C22_DeleteAccountCascades ==
    [][\A u \in UserIds :
        (DeleteAccount(u) /\ ~ret'.threw) =>
            /\ u \notin DOMAIN users'
            /\ \A j \in 1..Len(guild_members') : guild_members'[j].userId # u
            /\ \A f \in DOMAIN friendships' :
                  friendships'[f].requesterId # u /\ friendships'[f].recipientId # u
            /\ (users[u].guildId \in DOMAIN guilds) =>
                  LET g == users[u].guildId IN
                  /\ g \in DOMAIN guilds'
                  /\ guilds'[g].memberCount = guilds[g].memberCount - 1
    ]_vars

\* C22 witness: the account of a guild's founder was deleted; the guild is left with
\* its one other member, and the friendship the user had is gone
C22_Witness ==
    /\ ret.op = "deleteAccount" /\ ~ret.threw
    /\ ret.user \notin DOMAIN users
    /\ inserted.friendships >= 1 /\ DOMAIN friendships = {}
    /\ \E g \in DOMAIN guilds :
          /\ guilds[g].ownerId = ret.user
          /\ guilds[g].memberCount = 1
          /\ Cardinality(MembersOf(g)) = 1

\* C23: in every reachable state no two user documents have the same username.
C23_UsernamesUnique ==
    \A u, v \in DOMAIN users : (u # v) => (users[u].username # users[v].username)

\* the guild_members documents of a user
MembershipsOf(userId) ==
    {i \in 1..Len(guild_members) : guild_members[i].userId = userId}

\* each user has at most one guild_members document, and user.guildId is G exactly
\* when the guild G exists and has a guild_members document of the user
OneGuildPerUser ==
    \A u \in DOMAIN users :
        /\ Cardinality(MembershipsOf(u)) <= 1
        /\ \A g \in GuildArgs :
              (users[u].guildId = g) <=> (g \in DOMAIN guilds /\ Membership(g, u) # 0)
        /\ users[u].guildId \in GuildArgs \cup {NoGuild}

PlayerQuiet == player.calls = <<>> /\ player.replies = <<>>

\* C25: once the user has left the player and every call in flight has completed,
\* the user has no open session; while a game is shown and every call has
\* completed, the user's single open session is for that game.
C25_PlayerEndsSession ==
    \A u \in Players :
        PlayerQuiet /\ player.inst > 0 =>
            IF player.game = NoGame
            THEN OpenSessions(u) = {}
            ELSE /\ Cardinality(OpenSessions(u)) = 1
                 /\ \A i \in OpenSessions(u) : game_sessions[i].gameId = player.game

\* C26: the documented level costs: getExpForLevel gives 150 XP for level 2, 300 XP
\* for level 3 and 675 XP for level 4, and calculateLevelFromExp reports level 2
\* for 150 cumulative XP and level 3 for 450 cumulative XP.
C26_DocumentedLevelCosts ==
    /\ ret.op = "getExpForLevel" =>
          /\ ret.level = 2 => ret.cost = 150
          /\ ret.level = 3 => ret.cost = 300
          /\ ret.level = 4 => ret.cost = 675
    /\ ret.op = "calculateLevelFromExp" =>
          /\ ret.totalExp = 150 => ret.info.level = 2
          /\ ret.totalExp = 450 => ret.info.level = 3

\* C27: in every reachable state the totalExp of every guild is at least 0.
C27_GuildTotalNonNegative ==
    \A g \in DOMAIN guilds : guilds[g].totalExp >= 0

\* C28: in every reachable state the ownerId of every guild is an existing user
\* who has a guild_members document of role "owner" in that guild, and no other
\* guild_members document of the guild has role "owner".
C28_GuildHasValidOwner ==
    \A g \in DOMAIN guilds :
        /\ guilds[g].ownerId \in DOMAIN users
        /\ \E i \in MembersOf(g) :
              guild_members[i].userId = guilds[g].ownerId /\ guild_members[i].role = "owner"
        /\ \A i \in MembersOf(g) :
              guild_members[i].role = "owner" => guild_members[i].userId = guilds[g].ownerId

\* C29: in every reachable state the memberCount of every guild is the number of
\* guild_members documents of that guild, and is at least 1.
C29_MemberCountMatches ==
    \A g \in DOMAIN guilds :
        /\ guilds[g].memberCount = Cardinality(MembersOf(g))
        /\ guilds[g].memberCount >= 1

\* the closed sessions of a user
ClosedSessions(u) ==
    {i \in 1..Len(game_sessions) :
        game_sessions[i].userId = u /\ game_sessions[i].completed}

\* the sum of a field over a set of game_sessions documents
RECURSIVE SumSessions(_, _)
SumSessions(S, field) ==
    IF S = {} THEN 0
    ELSE LET i == CHOOSE x \in S : TRUE
         IN game_sessions[i][field] + SumSessions(S \ {i}, field)

\* the friendships of which the user is the recipient and that are accepted
AcceptedAsRecipient(u) ==
    {f \in DOMAIN friendships :
        friendships[f].recipientId = u /\ friendships[f].status = "accepted"}

\* those of them the user accepted by calling acceptFriendRequest
AcceptedBy(u) ==
    {f \in AcceptedAsRecipient(u) : friendships[f].acceptedBy = "acceptFriendRequest"}

\* guilds the user created (under SpecLedger no guild changes its owner)
CreatedBy(u) == {g \in DOMAIN guilds : guilds[g].ownerId = u}

====
